---- MODULE Spec2Model ----
(***************************************************************************)
(* A model of somber's batch Recursive SOM training loop                   *)
(* (somber/batch/recursive.py) and of the Neural Gas ranking               *)
(* (somber/ng.py).                                                         *)
(*                                                                         *)
(* Floating point numbers are modelled in fixed point: the integer v       *)
(* stands for the real v / Unit.  The one non-finite value is NaN, which   *)
(* every arithmetic operation propagates as numpy does.                    *)
(***************************************************************************)
EXTENDS Integers, Sequences, FiniteSets, TLC

\* ------------------------------------------------------------------ bounds
Unit == 16          \* fixed-point resolution: Unit stands for 1.0
MaxEpochs == 2      \* num_epochs ranges over 1..MaxEpochs
MaxBatches == 2     \* X holds 1..MaxBatches batches
MaxCheck == 3       \* checkpoint indices range over 0..MaxCheck
MaxRows == 3        \* _create_batches: X holds 1..MaxRows rows
MaxDim == 2         \* _create_batches: X.shape[1] ranges over 1..MaxDim
MaxBatchSize == 3   \* _create_batches: batch_size ranges over 1..MaxBatchSize
MaxNeurons == 3     \* _get_bmu: 1..MaxNeurons neurons, activations 0..MaxNeurons-1

NaN == 0 - 1000000

\* ------------------------------------------------- constructor parameters
map_dim == 2                    \* number of neurons
batch_size == 2                 \* X.shape[1]
sigma == Unit                   \* 1.0
base_learning_rate == Unit \div 2    \* self.learning_rate = 0.5
alpha == Unit                   \* 1.0
beta == Unit \div 2             \* 0.5

Neurons == 1..map_dim
Rows == 1..batch_size

\* --------------------------------------------------------------- numerics
IsNaN(a) == a = NaN

Add(a, b) == IF IsNaN(a) \/ IsNaN(b) THEN NaN ELSE a + b

Sub(a, b) == IF IsNaN(a) \/ IsNaN(b) THEN NaN ELSE a - b

\* product of two fixed-point numbers
Mul(a, b) == IF IsNaN(a) \/ IsNaN(b) THEN NaN ELSE (a * b) \div Unit

\* product of a fixed-point number and a plain integer (a mask value)
Times(a, k) == IF IsNaN(a) THEN NaN ELSE a * k

RECURSIVE SumOver(_, _)
SumOver(f, S) ==
    IF S = {} THEN 0
    ELSE LET k == CHOOSE k \in S : TRUE
         IN  Add(f[k], SumOver(f, S \ {k}))

\* np.exp(-t) for t >= 0: the reciprocal of the second-order Taylor
\* polynomial of exp(t), in fixed point.  Exact at t = 0, decreasing,
\* positive for the arguments that occur.
ExpNeg(t) ==
    IF IsNaN(t) THEN NaN
    ELSE (Unit * Unit) \div (Unit + t + ((t * t) \div (2 * Unit)))

\* somber.utils.expo, the default lrfunc and nbfunc:
\* value * exp(-current_step / total_steps)
expo(value, current_step, total_steps) ==
    Mul(value, ExpNeg((current_step * Unit) \div total_steps))

nbfunc(value, current_step, total_steps) == expo(value, current_step, total_steps)

lrfunc(value, current_step, total_steps) == expo(value, current_step, total_steps)

\* Som._calculate_influence: neuron-pair influence exp(-d^2 / (2 r^2)) with d
\* the distance of the two neurons on the (one-dimensional) lattice.
_calculate_influence(radius) ==
    [n \in Neurons |-> [m \in Neurons |->
        IF IsNaN(radius) \/ radius = 0 THEN NaN
        ELSE ExpNeg(((n - m) * (n - m) * Unit * Unit * Unit)
                    \div (2 * radius * radius))]]

\* an influence matrix times a scalar (line 67)
ScaleInfluence(infl, rate) ==
    [n \in Neurons |-> [m \in Neurons |-> Mul(infl[n][m], rate)]]

\* Som._distance_difference(x, weights) for one-dimensional data:
\* [row][neuron] |-> x[row] - weights[neuron]
_distance_difference_x(x, w) ==
    [b \in Rows |-> [n \in Neurons |-> Sub(x[b], w[n])]]

\* Som._distance_difference(prev_activation, context_weights):
\* [row][neuron][component] |-> prev[row][component] - cw[neuron][component]
_distance_difference_y(prev, cw) ==
    [b \in Rows |-> [n \in Neurons |-> [m \in Neurons |->
        Sub(prev[b][m], cw[n][m])]]]

\* Som._euclidean(x, weights): squared euclidean distance, no square root
_euclidean_x(x, w) ==
    [b \in Rows |-> [n \in Neurons |->
        Mul(Sub(x[b], w[n]), Sub(x[b], w[n]))]]

_euclidean_y(prev, cw) ==
    [b \in Rows |-> [n \in Neurons |->
        SumOver([m \in Neurons |->
                    Mul(Sub(prev[b][m], cw[n][m]), Sub(prev[b][m], cw[n][m]))],
                Neurons)]]

\* np.argmax over one row: the first NaN if there is one, else the first
\* maximum.
ArgMax(row) ==
    IF \E n \in Neurons : IsNaN(row[n])
    THEN CHOOSE n \in Neurons :
            /\ IsNaN(row[n])
            /\ \A m \in Neurons : m < n => ~IsNaN(row[m])
    ELSE CHOOSE n \in Neurons :
            /\ \A m \in Neurons : row[m] <= row[n]
            /\ \A m \in Neurons : m < n => row[m] < row[n]

\* Som._apply_influences: the best matching unit of every row and the row of
\* the influence matrix that belongs to it.
_apply_influences(activation, influences) ==
    LET bmu == [b \in Rows |-> ArgMax(activation[b])]
    IN  [influence |-> [b \in Rows |-> influences[bmu[b]]], bmu |-> bmu]

\* Som._calculate_update(diff_x, influence): influence times difference
_calculate_update_x(diff, influence) ==
    [b \in Rows |-> [n \in Neurons |-> Mul(diff[b][n], influence[b][n])]]

_calculate_update_y(diff, influence) ==
    [b \in Rows |-> [n \in Neurons |-> [m \in Neurons |->
        Mul(diff[b][n][m], influence[b][n])]]]

\* ndarray.mean(axis=0) of a per-row family of numbers
MeanRows(f) ==
    LET s == SumOver(f, Rows)
    IN  IF IsNaN(s) THEN NaN ELSE s \div batch_size

Zeros == [b \in Rows |-> [n \in Neurons |-> 0]]

\* ------------------------------------------------------------------ state
VARIABLES
    X,                  \* _train_loop: the batches, a sequence of rows
    context_mask,       \* _train_loop: one mask value per batch
    num_epochs,
    lr_update_counter,  \* the checkpoint indices, as a set: the loop uses
    nb_update_counter,  \* only "in" and len() of them
    weights,            \* self.weights, [neuron |-> number]
    context_weights,    \* self.context_weights, [neuron |-> [neuron |-> number]]
    nb_step, lr_step, map_radius, learning_rate, influences, idx,
    epoch,              \* the outer loop variable
    i,                  \* position of the inner loop in X
    prev_activation,
    pc,                 \* "start", "epoch", "example", "done", or "idle"
    \* history of the run, read by the properties only
    returned_activation,    \* what the last call of _example returned
    nb_fired, lr_fired,     \* the last iteration took the branch of line 50 / 57
    n_weights, n_context,   \* number of += applied to weights / context_weights
    \* Recursive._create_batches
    cb_X,               \* the input, [0..N-1 -> [0..D-1 -> number]]
    cb_batch_size,
    cb_result,          \* [shape |-> <<..>>, at |-> the cells]
    cb_pc,              \* "call", "resized", "returned", or "idle"
    \* Ng._get_bmu
    ng_activations,     \* a sequence of rows, each [0..k-1 -> number]
    ng_argfunc,         \* self.argfunc
    ng_result,
    ng_pc               \* "call", "returned", or "idle"

trainVars == <<X, context_mask, num_epochs, lr_update_counter, nb_update_counter,
               weights, context_weights, nb_step, lr_step, map_radius,
               learning_rate, influences, idx, epoch, i, prev_activation, pc,
               returned_activation, nb_fired, lr_fired, n_weights, n_context>>

batchVars == <<cb_X, cb_batch_size, cb_result, cb_pc>>

gasVars == <<ng_activations, ng_argfunc, ng_result, ng_pc>>

vars == <<trainVars, batchVars, gasVars>>

\* -------------------------------------------------------------- the inputs
\* The batches a run may be fed: one of finite rows, one with a NaN in it.
BatchValues == { <<0, Unit>>, <<NaN, Unit>> }

CheckpointSets == { S \in SUBSET (0..MaxCheck) : Cardinality(S) <= 2 }

\* the seeded weight matrix, one weight per neuron
InitialWeights == [n \in Neurons |-> (n - 1) * Unit]

\* np.zeros((self.map_dim, self.map_dim))
InitialContextWeights == [n \in Neurons |-> [m \in Neurons |-> 0]]

NumBatches == Len(X)

\* ------------------------------------------------------------- operations
\* Intermediate arrays are bound through singleton sets, which makes TLC
\* compute each of them once.

\* Recursive._get_bmus
_get_bmus(x, prev, w, cw) ==
    CHOOSE res \in
        { [activation |->
              [b \in Rows |-> [n \in Neurons |->
                  ExpNeg(Add(Mul(alpha, distance_x[b][n]),
                             Mul(beta, distance_y[b][n])))]],
           difference_x |-> difference_x,
           difference_y |-> difference_y] :
          difference_x \in {_distance_difference_x(x, w)},
          difference_y \in {_distance_difference_y(prev, cw)},
          distance_x \in {_euclidean_x(x, w)},
          distance_y \in {_euclidean_y(prev, cw)} } : TRUE

\* _example without line 91
ApplyUpdatesWeightsOnly(upd_x, upd_y, w, cw) ==
    [weights |->
        [n \in Neurons |-> Add(w[n], MeanRows([b \in Rows |-> upd_x[b][n]]))],
     context_weights |-> cw,
     n_weights |-> 1,
     n_context |-> 0]

\* lines 89 and 91 of Recursive._example: the two matrices after their +=
ApplyUpdates(upd_x, upd_y, w, cw) ==
    [weights |->
        [n \in Neurons |-> Add(w[n], MeanRows([b \in Rows |-> upd_x[b][n]]))],
     context_weights |->
        [n \in Neurons |-> [m \in Neurons |->
            Add(cw[n][m], MeanRows([b \in Rows |-> upd_y[b][n][m]]))]],
     n_weights |-> 1,
     n_context |-> 1]

\* Recursive._example: the matrices after the two updates and the activation
\* that is returned.
_example(x, infl, prev, w, cw) ==
    CHOOSE res \in
        UNION { UNION { { [activation |-> r.activation, updated |-> u] :
                          u \in { ApplyUpdates(_calculate_update_x(r.difference_x, influence),
                                               _calculate_update_y(r.difference_y, influence),
                                               w, cw) } } :
                        influence \in {_apply_influences(r.activation, infl).influence} } :
                r \in {_get_bmus(x, prev, w, cw)} } : TRUE

\* prev_activation *= ct (line 48)
MaskActivation(act, ct) ==
    [b \in Rows |-> [n \in Neurons |-> Times(act[b][n], ct)]]

\* the neighborhood test made after the increment of line 70
NbHitAfterIncrement(k) == (k + 1) \in nb_update_counter

\* the learning-rate test made on the position within the epoch
LrHitEpochLocal(k) == (k % Len(X)) \in lr_update_counter

\* the tests of lines 50 and 57
NbHit(k) == k \in nb_update_counter

LrHit(k) == k \in lr_update_counter

\* lines 29-38
Begin ==
    /\ pc = "start"
    /\ nb_step' = 0
    /\ lr_step' = 0
    /\ map_radius' = nbfunc(sigma, 0, Cardinality(nb_update_counter))
    /\ learning_rate' = lrfunc(base_learning_rate, 0, Cardinality(nb_update_counter))
    /\ influences' = _calculate_influence(map_radius')
    /\ idx' = 0
    /\ epoch' = 0
    /\ pc' = "epoch"
    /\ UNCHANGED <<X, context_mask, num_epochs, lr_update_counter,
                   nb_update_counter, weights, context_weights, i,
                   prev_activation, returned_activation, nb_fired, lr_fired,
                   n_weights, n_context, batchVars, gasVars>>

\* an epoch that begins without line 42
EpochStartKeepActivation ==
    /\ pc = "epoch"
    /\ epoch < num_epochs
    /\ i' = 0
    /\ pc' = "example"
    /\ UNCHANGED <<X, context_mask, num_epochs, lr_update_counter,
                   nb_update_counter, weights, context_weights, nb_step, lr_step,
                   map_radius, learning_rate, influences, idx, epoch,
                   prev_activation, returned_activation, nb_fired, lr_fired,
                   n_weights, n_context, batchVars, gasVars>>

\* lines 40-42: one more epoch begins
EpochStart ==
    /\ pc = "epoch"
    /\ epoch < num_epochs
    /\ prev_activation' = Zeros
    /\ i' = 0
    /\ pc' = "example"
    /\ UNCHANGED <<X, context_mask, num_epochs, lr_update_counter,
                   nb_update_counter, weights, context_weights, nb_step, lr_step,
                   map_radius, learning_rate, influences, idx, epoch,
                   returned_activation, nb_fired, lr_fired, n_weights, n_context, batchVars, gasVars>>

\* lines 44-70: one iteration of the inner loop
Example ==
    /\ pc = "example"
    /\ \E r \in {_example(X[i + 1], influences, prev_activation, weights,
                           context_weights)} :
       LET ct == context_mask[i + 1]
           nb == NbHit(idx)
           lr == LrHit(idx)
           nb_step1 == IF nb THEN nb_step + 1 ELSE nb_step
           lr_step1 == IF lr THEN lr_step + 1 ELSE lr_step
           radius1 == IF nb
                      THEN nbfunc(sigma, nb_step1, Cardinality(nb_update_counter))
                      ELSE map_radius
           rate1 == IF lr
                    THEN lrfunc(base_learning_rate, lr_step1,
                                Cardinality(lr_update_counter))
                    ELSE learning_rate
       IN  /\ weights' = r.updated.weights
           /\ context_weights' = r.updated.context_weights
           /\ n_weights' = n_weights + r.updated.n_weights
           /\ n_context' = n_context + r.updated.n_context
           /\ returned_activation' = r.activation
           /\ prev_activation' = MaskActivation(r.activation, ct)
           /\ nb_fired' = nb
           /\ lr_fired' = lr
           /\ nb_step' = nb_step1
           /\ lr_step' = lr_step1
           /\ map_radius' = radius1
           /\ learning_rate' = rate1
           /\ influences' = IF nb \/ lr
                            THEN ScaleInfluence(_calculate_influence(radius1), rate1)
                            ELSE influences
           /\ idx' = idx + 1
    /\ IF i + 1 < NumBatches
       THEN /\ i' = i + 1
            /\ UNCHANGED <<epoch, pc>>
       ELSE /\ i' = i + 1
            /\ epoch' = epoch + 1
            /\ pc' = "epoch"
    /\ UNCHANGED <<X, context_mask, num_epochs, lr_update_counter,
                   nb_update_counter, batchVars, gasVars>>

\* line 40: range(num_epochs) is exhausted and _train_loop returns
Finish ==
    /\ pc = "epoch"
    /\ epoch = num_epochs
    /\ pc' = "done"
    /\ UNCHANGED <<X, context_mask, num_epochs, lr_update_counter,
                   nb_update_counter, weights, context_weights, nb_step, lr_step,
                   map_radius, learning_rate, influences, idx, epoch, i,
                   prev_activation, returned_activation, nb_fired, lr_fired,
                   n_weights, n_context, batchVars, gasVars>>

BatchIdle ==
    /\ cb_X = <<>>
    /\ cb_batch_size = 0
    /\ cb_result = <<>>
    /\ cb_pc = "idle"

GasIdle ==
    /\ ng_activations = <<>>
    /\ ng_argfunc = "argmin"
    /\ ng_result = <<>>
    /\ ng_pc = "idle"

\* The map as constructed and the arguments of one call of _train_loop.  The
\* locals of the call hold placeholders until Begin assigns them.  expo
\* divides by len(nb_update_counter), so the call is made with that set
\* non-empty.
Init ==
    /\ num_epochs \in 1..MaxEpochs
    /\ \E B \in 1..MaxBatches :
          /\ X \in [1..B -> BatchValues]
          /\ context_mask \in [1..B -> {0, 1}]
    /\ lr_update_counter \in CheckpointSets
    /\ nb_update_counter \in CheckpointSets \ {{}}
    /\ weights = InitialWeights
    /\ context_weights = InitialContextWeights
    /\ nb_step = 0
    /\ lr_step = 0
    /\ map_radius = 0
    /\ learning_rate = 0
    /\ influences = _calculate_influence(sigma)
    /\ idx = 0
    /\ epoch = 0
    /\ i = 0
    /\ prev_activation = Zeros
    /\ returned_activation = Zeros
    /\ nb_fired = FALSE
    /\ lr_fired = FALSE
    /\ n_weights = 0
    /\ n_context = 0
    /\ pc = "start"
    /\ BatchIdle
    /\ GasIdle

Next == Begin \/ EpochStart \/ Example \/ Finish

Spec == Init /\ [][Next]_vars

\* ------------------------------------------- Recursive._create_batches
\* the number of batches rounded down
FloorDiv(n, k) == n \div k

\* int(np.ceil(n / k)) of line 111
CeilDiv(n, k) == IF n % k = 0 THEN n \div k ELSE (n \div k) + 1

\* ndarray.ravel: the cells of an (n, d) array in row-major order
Ravel(A, n, d) == [k \in 0..(n * d - 1) |-> A[k \div d][k % d]]

\* np.resize(a, new_shape): the flattened array repeated as often as needed,
\* cut to the new size and reshaped in row-major order
np_resize(A, n, d, s0, s1, s2) ==
    LET flat == Ravel(A, n, d)
        repeated == [k \in 0..(s0 * s1 * s2 - 1) |-> flat[k % (n * d)]]
    IN  [shape |-> <<s0, s1, s2>>,
         at |-> [a \in 0..(s0 - 1) |-> [b \in 0..(s1 - 1) |-> [c \in 0..(s2 - 1) |->
                    repeated[(a * s1 + b) * s2 + c]]]]]

\* ndarray.transpose((1, 0, 2))
Transpose102(R) ==
    [shape |-> <<R.shape[2], R.shape[1], R.shape[3]>>,
     at |-> [b \in 0..(R.shape[2] - 1) |-> [a \in 0..(R.shape[1] - 1) |->
                [c \in 0..(R.shape[3] - 1) |-> R.at[a][b][c]]]]]

cb_N == Cardinality(DOMAIN cb_X)

cb_D == Cardinality(DOMAIN cb_X[0])

\* line 111
Resize ==
    /\ cb_pc = "call"
    /\ cb_result' = np_resize(cb_X, cb_N, cb_D,
                              cb_batch_size, CeilDiv(cb_N, cb_batch_size), cb_D)
    /\ cb_pc' = "resized"
    /\ UNCHANGED <<cb_X, cb_batch_size, trainVars, gasVars>>

\* line 113
Transpose ==
    /\ cb_pc = "resized"
    /\ cb_result' = Transpose102(cb_result)
    /\ cb_pc' = "returned"
    /\ UNCHANGED <<cb_X, cb_batch_size, trainVars, gasVars>>

TrainIdle ==
    /\ X = <<>>
    /\ context_mask = <<>>
    /\ num_epochs = 0
    /\ lr_update_counter = {}
    /\ nb_update_counter = {}
    /\ weights = InitialWeights
    /\ context_weights = InitialContextWeights
    /\ nb_step = 0
    /\ lr_step = 0
    /\ map_radius = 0
    /\ learning_rate = 0
    /\ influences = _calculate_influence(sigma)
    /\ idx = 0
    /\ epoch = 0
    /\ i = 0
    /\ prev_activation = Zeros
    /\ returned_activation = Zeros
    /\ nb_fired = FALSE
    /\ lr_fired = FALSE
    /\ n_weights = 0
    /\ n_context = 0
    /\ pc = "idle"

BatchInit ==
    /\ \E n \in 1..MaxRows, d \in 1..MaxDim :
          cb_X \in [0..(n - 1) -> [0..(d - 1) -> {0, 1}]]
    /\ cb_batch_size \in 1..MaxBatchSize
    /\ cb_result = <<>>
    /\ cb_pc = "call"
    /\ TrainIdle
    /\ GasIdle

BatchNext == Resize \/ Transpose

BatchSpec == BatchInit /\ [][BatchNext]_vars

\* ------------------------------------------------------- Ng._get_bmu
\* the activations left as they are
NotNegated(a) == a

\* -activations (line 66)
Negate(a) == 0 - a

\* xp.argsort over one row of k values: the indices ordered by ascending
\* value.  The order of equal values is the sort's to choose.
ArgsortRow(row) ==
    LET ix == DOMAIN row
    IN  { p \in Permutations(ix) :
            \A j, k \in ix : j < k => row[p[j]] <= row[p[k]] }

\* xp.argsort(activations, 1): every row sorted on its own
RECURSIVE Argsort1(_, _)
Argsort1(a, r) ==
    IF r = 0 THEN { <<>> }
    ELSE { Append(s, p) : s \in Argsort1(a, r - 1), p \in ArgsortRow(a[r]) }

\* lines 61-67
GetBmu ==
    /\ ng_pc = "call"
    /\ LET activations ==
              IF ng_argfunc = "argmax"
              THEN [r \in DOMAIN ng_activations |->
                       [k \in DOMAIN ng_activations[r] |-> Negate(ng_activations[r][k])]]
              ELSE ng_activations
       IN  ng_result' \in Argsort1(activations, Len(ng_activations))
    /\ ng_pc' = "returned"
    /\ UNCHANGED <<ng_activations, ng_argfunc, trainVars, batchVars>>

GasRowCounts == {1, 2}

GasInit ==
    /\ \E r \in GasRowCounts, k \in 1..MaxNeurons :
          ng_activations \in [1..r -> [0..(k - 1) -> 0..(MaxNeurons - 1)]]
    /\ ng_argfunc \in {"argmin", "argmax"}
    /\ ng_result = <<>>
    /\ ng_pc = "call"
    /\ TrainIdle
    /\ BatchIdle

GasNext == GetBmu

GasSpec == GasInit /\ [][GasNext]_vars

\* ----------------------------------------------------------- properties
TotalSteps == num_epochs * Len(X)

ExpectedRadius == nbfunc(sigma, nb_step, Cardinality(nb_update_counter))

ExpectedRate ==
    IF lr_update_counter = {} THEN base_learning_rate
    ELSE lrfunc(base_learning_rate, lr_step, Cardinality(lr_update_counter))

\* C1: whenever an example is about to be processed, the influence array
\* that _example will get is _calculate_influence(radius) times the learning
\* rate, radius and rate being nbfunc and lrfunc at the current steps.
C1_InfluenceScaled ==
    pc = "example" =>
        influences = ScaleInfluence(_calculate_influence(ExpectedRadius), ExpectedRate)

\* C2 as stated: the recomputation after an example is triggered by the
\* incremented index (idx is that index once the iteration is over).
C2_TestAfterIncrement ==
    idx > 0 =>
        /\ nb_fired <=> (idx \in nb_update_counter)
        /\ lr_fired <=> (idx \in lr_update_counter)

\* C2 amended: the recomputation after the k-th example is triggered by k,
\* the value of idx before line 70 increments it.
C2_TestBeforeIncrement ==
    idx > 0 =>
        /\ nb_fired <=> ((idx - 1) \in nb_update_counter)
        /\ lr_fired <=> ((idx - 1) \in lr_update_counter)

C2_Witness ==
    /\ idx > 0
    /\ nb_fired
    /\ idx \notin nb_update_counter
    /\ ~lr_fired
    /\ idx \in lr_update_counter

\* C3: within an epoch the activation handed to the successor of example
\* i-1 is all zeros when context_mask of i-1 is 0, and what _example
\* returned for i-1 when it is 1.
C3_MaskedRecurrence ==
    (pc = "example" /\ i > 0) =>
        prev_activation =
            IF context_mask[i] = 0 THEN Zeros ELSE returned_activation

\* C4: the first example of every epoch gets an all-zero prev_activation,
\* and beginning an epoch leaves the weights, the context weights and the
\* counters idx, nb_step and lr_step as they are.
C4_EpochReset ==
    /\ []((pc = "example" /\ i = 0) => prev_activation = Zeros)
    /\ [][pc = "epoch" =>
            UNCHANGED <<weights, context_weights, idx, nb_step, lr_step>>]_vars

C4_Witness ==
    /\ pc = "example"
    /\ i = 0
    /\ epoch >= 1
    /\ context_mask[Len(X)] = 1
    /\ returned_activation # Zeros
    /\ \A b \in Rows, n \in Neurons : ~IsNaN(returned_activation[b][n])
    /\ weights # InitialWeights
    /\ idx > 0

\* C6: no NaN is ever added into weights or context_weights (the run has no
\* other way to end a batch than with both matrices updated).
C6_NoNaNApplied ==
    /\ \A n \in Neurons : ~IsNaN(weights[n])
    /\ \A n, m \in Neurons : ~IsNaN(context_weights[n][m])

\* C8: with a checkpoint index outside [0, total_steps) no example is ever
\* processed and the run does not complete.
C8_EagerRangeCheck ==
    (\E k \in lr_update_counter \cup nb_update_counter :
        pc # "idle" /\ (k < 0 \/ k >= TotalSteps))
    => (n_weights = 0 /\ n_context = 0 /\ weights = InitialWeights /\ pc # "done")

\* C9: nb_step and lr_step count the checkpoints among the indices tested
\* so far (0..idx-1), idx counts the examples of all epochs, neither step
\* exceeds the size of its checkpoint set, and no counter ever decreases.
C9_Counters ==
    /\ [](pc \in {"epoch", "example", "done"} =>
            /\ nb_step = Cardinality(nb_update_counter \cap (0..(idx - 1)))
            /\ lr_step = Cardinality(lr_update_counter \cap (0..(idx - 1)))
            /\ nb_step <= Cardinality(nb_update_counter)
            /\ lr_step <= Cardinality(lr_update_counter)
            /\ idx = epoch * Len(X) + (IF pc = "example" THEN i ELSE 0))
    /\ [][idx' >= idx /\ nb_step' >= nb_step /\ lr_step' >= lr_step]_vars

C9_Witness ==
    /\ epoch >= 1
    /\ pc = "example"
    /\ nb_step = 2
    /\ lr_step = 1
    /\ idx > Len(X)

\* what is left of the call: two per example and per epoch still to come,
\* and the position within the current pass of the outer loop
Remaining ==
    2 * (TotalSteps - idx) + 2 * (num_epochs - epoch)
      + (IF pc = "start" THEN 2 ELSE IF pc = "epoch" THEN 1 ELSE 0)

\* C10: the call terminates (until it is done the guard of one of its steps
\* holds: an epoch to begin or the return after the last one, a batch to
\* take; and every step brings it closer to its end); batches are taken in
\* the order 0..B-1 in each epoch; weights and context_weights are each
\* updated once per processed batch and change in no other step; at the end
\* E*B updates were applied and idx is E*B.
C10_Terminates ==
    /\ [](/\ pc \in {"start", "epoch", "example", "done"}
          /\ (pc = "epoch" => epoch <= num_epochs)
          /\ (pc = "example" => (i < Len(X) /\ idx = epoch * Len(X) + i))
          /\ Remaining >= 0
          /\ n_weights = idx
          /\ n_context = idx
          /\ (pc = "done" => (idx = TotalSteps /\ n_weights = TotalSteps
                              /\ n_context = TotalSteps)))
    /\ [][Remaining' < Remaining]_vars
    /\ [][(weights' # weights \/ context_weights' # context_weights)
            => (pc = "example" /\ idx' = idx + 1)]_vars

C10_Witness ==
    /\ pc = "done"
    /\ num_epochs >= 2
    /\ Len(X) >= 2
    /\ n_weights = num_epochs * Len(X)
    /\ weights # InitialWeights
    /\ context_weights # InitialContextWeights
    /\ \A n \in Neurons : ~IsNaN(weights[n])

Distinct(row) == \A j, k \in DOMAIN row : j # k => row[j] # row[k]

\* C7: for every row of pairwise distinct activations the result is a
\* permutation of the neuron indices, best first: ascending by activation
\* under 'argmin', descending under 'argmax'; a strictly increasing row
\* under 'argmin' gives 0, 1, ..., k-1.
C7_BestFirst ==
    ng_pc = "returned" =>
        \A r \in DOMAIN ng_activations :
            LET row == ng_activations[r]
                p == ng_result[r]
                ix == DOMAIN row
            IN  Distinct(row) =>
                  /\ DOMAIN p = ix
                  /\ {p[j] : j \in ix} = ix
                  /\ ng_argfunc = "argmin" =>
                        /\ \A j, k \in ix : j < k => row[p[j]] < row[p[k]]
                        /\ \A k \in ix : row[p[0]] <= row[k]
                        /\ (\A j, k \in ix : j < k => row[j] < row[k])
                              => p = [k \in ix |-> k]
                  /\ ng_argfunc = "argmax" =>
                        /\ \A j, k \in ix : j < k => row[p[j]] > row[p[k]]
                        /\ \A k \in ix : row[p[0]] >= row[k]

C7_Witness ==
    /\ ng_pc = "returned"
    /\ ng_argfunc = "argmax"
    /\ Len(ng_activations) = 2
    /\ \A r \in DOMAIN ng_activations :
          /\ Distinct(ng_activations[r])
          /\ Cardinality(DOMAIN ng_activations[r]) = 3
    /\ ng_result[1] # ng_result[2]
    /\ ng_result[1][0] # 0

====
